---- MODULE Spec2Model ----
(***************************************************************************)
(* Model of the host shell (App) and the hand-tracking HUD                 *)
(* (HandController) of curatorphys.                                        *)
(*                                                                         *)
(* One state = the React state committed by the last render, the refs,     *)
(* the asynchronous work in flight (fetches, report requests, the          *)
(* debounce timer, script loads, the engine's per-frame result) and the    *)
(* messages the last step posted to the guest iframe.                      *)
(*                                                                         *)
(* Rendering: a state update made by a click is rendered, committed and    *)
(* its passive effects flushed inside the click's task, so a click is one  *)
(* action.  A state update made by an asynchronous continuation (fetch     *)
(* settled, scripts loaded) is rendered and committed (refs attached and   *)
(* detached) in one action and its passive effects run in a later action   *)
(* (RunEffects); other asynchronous callbacks may run in between.          *)
(***************************************************************************)
EXTENDS Integers, Sequences, FiniteSets, TLC

\* ---------------------------------------------------------------- bounds
\* fetches (loadGame / handleRemix awaits) that may be in flight together
MaxInFlight == 2
\* report requests (GAME_OVER being answered) that may be in flight together
MaxReqs == 2
\* landmark coordinates are multiples of 1/(2*Half); 0.5 is Half units
Half == 2
\* times the component is mounted (the effect of HandController.tsx:29 runs)
MaxLives == 3

\* ------------------------------------------------------------- constants
Models == {"gemini3", "gemini2p5"}
\* gameHtml: null, or the document fetched for a model or remixed from it
NoHtml == [model |-> "null", remix |-> FALSE]

\* identities of <video> elements: a fresh element takes an identity that
\* nothing still refers to
Elems == {1, 2}

\* the three capability modules, in the order initScripts awaits them
ScriptUrls == <<"camera_utils", "drawing_utils", "hands">>

NoSignal == [called |-> FALSE, x |-> 0, isActive |-> FALSE]
FallbackReport == [archetype |-> "DATA FRAGMENTED", match |-> "Unknown Entity",
                   narrative |-> "lost signal"]

VARIABLES
  \* App, useState
  activeModel, showRemix, showModal, gameHtml, isLoading,
  \* App, asynchronous work
  fetches,      \* loadGame / handleRemix calls awaiting their answer, oldest first
  pauseTimers,  \* pending setTimeout(syncGameState, 100) closures: their isPaused
  reqs,         \* GAME_OVER handlers awaiting generateContent, oldest first: is the
                \* document that asked still the one in the iframe
  \* the iframe
  guest,        \* 1: a guest document is in the mounted iframe, 0: no iframe
  guestLoaded,  \* its load event has fired
  lastPause,    \* the last PAUSE_GAME the loaded guest document was sent:
                \* "true", "false", or "none"
  \* the document's <head>
  scriptTags,   \* per capability module: its <script> is absent, loading, ...
  appends,      \* per capability module: the <script> elements appended for it
  \* HandController
  mounted,
  life,         \* the mounts so far
  loadPc,       \* the module this mount's initScripts awaits (4: done, 0: failed)
  oldPcs,       \* the modules awaited by the initScripts of earlier mounts
  scriptsLoaded, handsRef,
  handsNew,     \* `new window.Hands` calls of this mount
  cameraRef,
  cameraFailed, \* `new window.Camera` / start() has thrown in this mount
  cameraVideo,  \* the <video> the held camera was constructed with
  videoRef,     \* the mounted <video> (and <canvas>), 0: none
  started, stopped,  \* camera.start() and camera.stop() calls so far
  fx,           \* passive effects of the last asynchronous commit, not yet run
  inflight,     \* a frame sent to the engine whose result is not delivered yet
  \* observation
  ev,           \* the last step: handler and input
  out,          \* the messages the last step posted to the iframe's contentWindow
  win           \* the debounce window opened when the timer was last armed: armed
                \* by a rise of the pause flag (rose), by a fall that came while
                \* the timer of a rise was pending (pair), and the PAUSE_GAME
                \* values posted before the window closed (posts)

appVars == <<activeModel, showRemix, showModal, gameHtml, isLoading>>
asyncVars == <<fetches, pauseTimers, reqs>>
frameVars == <<guest, guestLoaded, lastPause>>
loadVars == <<scriptTags, appends, life, loadPc, oldPcs, scriptsLoaded>>
handsVars == <<handsRef, handsNew>>
camVars == <<cameraRef, cameraVideo, started, stopped, cameraFailed>>
hcVars == <<mounted, loadVars, handsVars, camVars, videoRef, fx, inflight>>
vars == <<appVars, asyncVars, frameVars, hcVars, ev, out, win>>

\* ------------------------------------------------------- derived by render
\* part_000:426  isActive={!isLoading && !showModal && !showRemix}
IsActive == ~isLoading /\ ~showModal /\ ~showRemix

\* part_000:273  const isPaused = showModal || showRemix
PauseFlag == showModal \/ showRemix

\* part_000:412  {!isLoading && gameHtml && (<iframe .../>)}
IframeMounted == ~isLoading /\ gameHtml # NoHtml

Event(op, arg) == [op |-> op, arg |-> arg, sig |-> NoSignal, rejected |-> FALSE]

Msg(type, payload) == [type |-> type, payload |-> payload]

\* iframeRef.current?.contentWindow.postMessage(...): nothing without an iframe
Post(type, payload) == IF guest # 0 THEN <<Msg(type, payload)>> ELSE <<>>

\* ------------------------------------------------------------ the commit
\* the documents that asked for the pending reports are gone
Orphaned(rs) == [i \in 1 .. Len(rs) |-> FALSE]

\* an element identity the held camera does not refer to
FreshElem == CHOOSE e \in Elems : e # cameraVideo

\* part_000:412-420  The iframe is unmounted while loading or without a document;
\* a new element, or a new srcDoc on the mounted one, loads a new guest document.
CommitIframe(newDoc) ==
  IF ~mounted' \/ ~IframeMounted'
  THEN /\ guest' = 0 /\ guestLoaded' = FALSE /\ lastPause' = "none"
       /\ reqs' = Orphaned(reqs)
  ELSE IF ~IframeMounted \/ gameHtml' # gameHtml \/ newDoc
       THEN /\ guest' = 1 /\ guestLoaded' = FALSE /\ lastPause' = "none"
            /\ reqs' = Orphaned(reqs)
       ELSE UNCHANGED <<frameVars, reqs>>

\* HandController.tsx:183-194  render returns null when !isActive: the <video> and
\* <canvas> exist, and videoRef / canvasRef are attached, only while isActive.
CommitHud ==
  videoRef' = IF mounted' /\ IsActive'
              THEN (IF videoRef # 0 THEN videoRef ELSE FreshElem)
              ELSE 0

\* HandController.tsx:133-135  canvasRef.current: rendered beside the <video>
canvasRef == videoRef

\* --------------------------------------------------- HandController effects
\* HandController.tsx:100  the effect body runs only past this guard
EffectReady(sl, hands, video) == sl /\ hands # "null" /\ video # 0

\* the guard without its !cameraRef.current
MayStartCameraAlways(cam) == scriptTags[1] = "loaded"

\* HandController.tsx:104  !cameraRef.current && window.Camera
MayStartCamera(cam) == cam = 0 /\ scriptTags[1] = "loaded"

\* HandController.tsx:99-130  useEffect [isActive, scriptsLoaded], run with the
\* isActive and the refs of the committed render.
CameraEffect(sl, hands, active, video) ==
  IF ~EffectReady(sl, hands, video)
  THEN UNCHANGED camVars
  ELSE IF active
       THEN IF MayStartCamera(cameraRef)
            THEN \E threw \in BOOLEAN :
                   IF threw
                   THEN /\ cameraFailed' = TRUE
                        /\ UNCHANGED <<cameraRef, cameraVideo, started, stopped>>
                   ELSE /\ started' = started + 1
                        /\ cameraRef' = started + 1
                        /\ cameraVideo' = video
                        /\ UNCHANGED <<stopped, cameraFailed>>
            ELSE UNCHANGED camVars
       ELSE IF cameraRef # 0
            THEN /\ stopped' = stopped + 1
                 /\ cameraRef' = 0
                 /\ cameraVideo' = 0
                 /\ UNCHANGED <<started, cameraFailed>>
            ELSE UNCHANGED camVars

\* HandController.tsx:74-96  useEffect [scriptsLoaded]: the engine is created once
HandsEffect ==
  IF ~scriptsLoaded \/ handsRef # "null"
  THEN UNCHANGED handsVars
  ELSE IF scriptTags[3] = "loaded"
       THEN /\ handsNew' = handsNew + 1
            /\ \E threw \in BOOLEAN : handsRef' = IF threw THEN "null" ELSE "hands"
       ELSE UNCHANGED handsVars

\* effects without dependency arrays: both run after every commit
PendingEffectsNoDeps(activeChanged, loadedChanged) == {"hands", "camera"}

\* HandController.tsx:96 [scriptsLoaded] and HandController.tsx:130
\* [isActive, scriptsLoaded]: the effects a commit schedules
PendingEffects(activeChanged, loadedChanged) ==
  (IF loadedChanged THEN {"hands", "camera"} ELSE {})
    \cup (IF activeChanged THEN {"camera"} ELSE {})

\* the effects of a click's commit, flushed inside the click's task
SyncFx ==
  LET es == IF mounted THEN PendingEffects(IsActive' # IsActive, FALSE) ELSE {}
  IN /\ fx' = {}
     /\ IF "hands" \in es THEN HandsEffect ELSE UNCHANGED handsVars
     /\ IF "camera" \in es
        THEN CameraEffect(scriptsLoaded, handsRef', IsActive', videoRef')
        ELSE UNCHANGED camVars

\* the effects of an asynchronous commit run in a later task
AsyncFx ==
  /\ fx' = IF mounted THEN PendingEffects(IsActive' # IsActive, FALSE) ELSE {}
  /\ UNCHANGED <<handsVars, camVars>>

RunEffects ==
  /\ fx # {}
  /\ IF "hands" \in fx THEN HandsEffect ELSE UNCHANGED handsVars
  /\ IF "camera" \in fx
     THEN CameraEffect(scriptsLoaded, handsRef', IsActive, videoRef)
     ELSE UNCHANGED camVars
  /\ fx' = {}
  /\ ev' = Event("RunEffects", "")
  /\ out' = <<>>
  /\ UNCHANGED <<appVars, asyncVars, frameVars, mounted, loadVars, videoRef,
                 inflight, win>>

\* the effect without its cleanup
ArmTimerNoClear(timers, paused) == timers \cup {paused}

\* part_000:279-283  useEffect [syncGameState]: the cleanup clears the previous
\* timer, then a new one is set with the new closure
ArmTimer(timers, paused) == {paused}

TimerEffect ==
  /\ pauseTimers' = ArmTimer(pauseTimers, PauseFlag')
  /\ win' = [rose |-> ~PauseFlag /\ PauseFlag',
             pair |-> win.rose /\ TRUE \in pauseTimers /\ PauseFlag /\ ~PauseFlag',
             posts |-> {}]

\* ------------------------------------------------- HandController: scripts
\* loadScript without its querySelector test: every URL is appended
NextToAppendAlways(tags, k) == IF k <= 3 THEN k ELSE 4

\* HandController.tsx:34-37  a URL whose <script> is in the document resolves at
\* once; the chain stops at the first URL it has to append and await (4: none)
NextToAppend(tags, k) ==
  IF \E j \in k .. 3 : tags[j] = "absent"
  THEN CHOOSE j \in k .. 3 : tags[j] = "absent" /\ \A h \in k .. (j - 1) : tags[h] # "absent"
  ELSE 4

\* the three loadScript calls made at once, none awaited
StartChainParallel(tags) ==
  [k \in 1 .. 3 |-> IF tags[k] = "absent" THEN "loading" ELSE tags[k]]

\* HandController.tsx:47-51, 61  initScripts up to its first pending await: the
\* <script> elements of the document after it
StartChain(tags) ==
  IF NextToAppend(tags, 1) <= 3
  THEN [tags EXCEPT ![NextToAppend(tags, 1)] = "loading"]
  ELSE tags

\* ------------------------------------------------------------------- Init
\* The state after the first commit and its effects: loadGame(activeModel) is
\* awaiting its fetch, the debounce timer is armed, initScripts is awaiting the
\* first script.
Init ==
  /\ activeModel = "gemini3" /\ showRemix = FALSE /\ showModal = TRUE
  /\ gameHtml = NoHtml /\ isLoading = TRUE
  /\ fetches = <<[kind |-> "load", model |-> "gemini3"]>>
  /\ pauseTimers = {TRUE}
  /\ reqs = <<>>
  /\ guest = 0 /\ guestLoaded = FALSE /\ lastPause = "none"
  /\ mounted = TRUE /\ life = 1
  /\ scriptTags = StartChain([k \in 1 .. 3 |-> "absent"])
  /\ appends = [k \in 1 .. 3 |-> IF scriptTags[k] = "absent" THEN 0 ELSE 1]
  /\ loadPc = 1 /\ oldPcs = {} /\ scriptsLoaded = FALSE
  /\ handsRef = "null" /\ handsNew = 0
  /\ cameraRef = 0 /\ cameraVideo = 0 /\ videoRef = 0
  /\ started = 0 /\ stopped = 0 /\ cameraFailed = FALSE
  /\ fx = {} /\ inflight = FALSE
  /\ ev = Event("mount", "")
  /\ out = <<>>
  /\ win = [rose |-> FALSE, pair |-> FALSE, posts |-> {}]

\* ------------------------------------------------------------ App: clicks
RemoveAt(s, i) == [j \in 1 .. (Len(s) - 1) |-> IF j < i THEN s[j] ELSE s[j + 1]]

\* part_000:398-399 setActiveModel, then part_000:266-268 the effect calls
\* loadGame, whose part_000:330-331 runs before its first await.  The render in
\* between differs from the one before the click in the header's label only.
ClickModel(m) ==
  /\ mounted /\ fx = {}
  /\ m # activeModel
  /\ Len(fetches) < MaxInFlight
  /\ activeModel' = m
  /\ isLoading' = TRUE
  /\ gameHtml' = NoHtml
  /\ fetches' = Append(fetches, [kind |-> "load", model |-> m])
  /\ UNCHANGED <<showRemix, showModal, pauseTimers, win>>
  /\ UNCHANGED <<mounted, loadVars, inflight>>
  /\ CommitIframe(FALSE) /\ CommitHud /\ SyncFx
  /\ ev' = Event("ClickModel", m)
  /\ out' = <<>>

\* part_000:400 setShowRemix(true)
ClickRemix ==
  /\ mounted /\ fx = {}
  /\ ~showRemix
  /\ showRemix' = TRUE
  /\ UNCHANGED <<activeModel, showModal, gameHtml, isLoading, fetches>>
  /\ UNCHANGED <<mounted, loadVars, inflight>>
  /\ CommitIframe(FALSE) /\ CommitHud /\ SyncFx /\ TimerEffect
  /\ ev' = Event("ClickRemix", "")
  /\ out' = <<>>

\* part_000:458 the overlay's onClick: setShowRemix(false)
CloseRemix ==
  /\ mounted /\ fx = {}
  /\ showRemix
  /\ showRemix' = FALSE
  /\ UNCHANGED <<activeModel, showModal, gameHtml, isLoading, fetches>>
  /\ UNCHANGED <<mounted, loadVars, inflight>>
  /\ CommitIframe(FALSE) /\ CommitHud /\ SyncFx /\ TimerEffect
  /\ ev' = Event("CloseRemix", "")
  /\ out' = <<>>

\* part_000:445 setShowModal(false)
ClickInit ==
  /\ mounted /\ fx = {}
  /\ showModal
  /\ showModal' = FALSE
  /\ UNCHANGED <<activeModel, showRemix, gameHtml, isLoading, fetches>>
  /\ UNCHANGED <<mounted, loadVars, inflight>>
  /\ CommitIframe(FALSE) /\ CommitHud /\ SyncFx /\ TimerEffect
  /\ ev' = Event("ClickInit", "")
  /\ out' = <<>>

\* part_000:349-363 handleRemix up to its await
HandleRemix ==
  /\ mounted /\ fx = {}
  /\ showRemix
  /\ Len(fetches) < MaxInFlight
  /\ showRemix' = FALSE
  /\ isLoading' = TRUE
  /\ fetches' = Append(fetches, [kind |-> "remix", model |-> activeModel])
  /\ UNCHANGED <<activeModel, showModal, gameHtml>>
  /\ UNCHANGED <<mounted, loadVars, inflight>>
  /\ CommitIframe(FALSE) /\ CommitHud /\ SyncFx /\ TimerEffect
  /\ ev' = Event("HandleRemix", "")
  /\ out' = <<>>

\* ------------------------------------------- App: asynchronous continuations
\* part_000:334-346 loadGame after its await, part_000:365-374 handleRemix after
\* its await: the document on success, isLoading false in either case.  After
\* the unmount the state updates are dropped.
FetchSettle(i, ok) ==
  /\ fx = {}
  /\ i \in 1 .. Len(fetches)
  /\ fetches' = RemoveAt(fetches, i)
  /\ IF mounted
     THEN /\ gameHtml' = IF ok
                         THEN [model |-> fetches[i].model,
                               remix |-> fetches[i].kind = "remix"]
                         ELSE gameHtml
          /\ isLoading' = FALSE
     ELSE UNCHANGED <<gameHtml, isLoading>>
  /\ UNCHANGED <<activeModel, showRemix, showModal, pauseTimers, win>>
  /\ UNCHANGED <<mounted, loadVars, inflight>>
  /\ CommitIframe(ok /\ fetches[i].kind = "remix") /\ CommitHud /\ AsyncFx
  /\ ev' = Event("FetchSettle", fetches[i].kind)
  /\ out' = <<>>

\* a cleanup that stops nothing
CleanupStopsNothing(cam) == FALSE

\* HandController.tsx:66  cameraRef.current && typeof cameraRef.current.stop === 'function'
CleanupStops(cam) == cam # 0

\* root unmount: HandController.tsx:63-70 (mounted = false, the camera stopped),
\* part_000:282 (the timer cleared); the iframe and the HUD leave the document
Unmount ==
  /\ mounted /\ fx = {}
  /\ mounted' = FALSE
  /\ pauseTimers' = {}
  /\ IF CleanupStops(cameraRef)
     THEN /\ stopped' = stopped + 1 /\ cameraRef' = 0 /\ cameraVideo' = 0
          /\ UNCHANGED <<started, cameraFailed>>
     ELSE UNCHANGED camVars
  /\ CommitIframe(FALSE) /\ CommitHud
  /\ UNCHANGED <<appVars, fetches, loadVars, handsVars, fx, inflight, win>>
  /\ ev' = Event("Unmount", "")
  /\ out' = <<>>

\* HandController.tsx:41-42 the <script> of module k has settled with status st,
\* then HandController.tsx:47-55 the rest of the initScripts that awaited it, up
\* to its next await; setScriptsLoaded(true) of a mounted component is rendered
\* and committed, its effects are left pending
ResolveLoad(k, st) ==
  /\ fx = {}
  /\ k \in 1 .. 3 /\ scriptTags[k] = "loading"
  /\ LET tags == [scriptTags EXCEPT ![k] = st]
         nxt == IF loadPc = k \/ k \in oldPcs THEN NextToAppend(tags, k + 1) ELSE 4
         done == loadPc = k /\ nxt = 4 /\ mounted
     IN /\ scriptTags' = IF nxt <= 3 THEN [tags EXCEPT ![nxt] = "loading"] ELSE tags
        /\ appends' = IF nxt <= 3 THEN [appends EXCEPT ![nxt] = @ + 1] ELSE appends
        /\ loadPc' = IF loadPc = k THEN nxt ELSE loadPc
        /\ oldPcs' = IF loadPc # k /\ k \in oldPcs
                     THEN (oldPcs \ {k}) \cup (IF nxt <= 3 THEN {nxt} ELSE {})
                     ELSE oldPcs
        /\ scriptsLoaded' = (scriptsLoaded \/ done)
        /\ fx' = IF done THEN PendingEffects(FALSE, TRUE) ELSE {}
  /\ UNCHANGED <<appVars, asyncVars, frameVars, mounted, life, handsVars, camVars,
                 videoRef, inflight, win>>

\* HandController.tsx:41 script.onload
ScriptOnload(k) ==
  /\ ResolveLoad(k, "loaded")
  /\ ev' = Event("ScriptOnload", ScriptUrls[k])
  /\ out' = <<>>

\* initScripts with a try/catch around each await: the chain goes on
ScriptOnerrorSwallowed(k) ==
  /\ ResolveLoad(k, "error")
  /\ ev' = Event("ScriptOnerror", ScriptUrls[k])
  /\ out' = <<>>

\* HandController.tsx:42 script.onerror, then HandController.tsx:56-58 the catch:
\* the initScripts that awaited the module ends
ScriptOnerror(k) ==
  /\ k \in 1 .. 3 /\ scriptTags[k] = "loading"
  /\ scriptTags' = [scriptTags EXCEPT ![k] = "error"]
  /\ loadPc' = IF loadPc = k THEN 0 ELSE loadPc
  /\ oldPcs' = oldPcs \ {k}
  /\ UNCHANGED <<appVars, asyncVars, frameVars, mounted, appends, life,
                 scriptsLoaded, handsVars, camVars, videoRef, fx, inflight, win>>
  /\ ev' = Event("ScriptOnerror", ScriptUrls[k])
  /\ out' = <<>>

\* part_000:485-486 the App is rendered again after an unmount, with new state
\* and refs; HandController.tsx:29-61 its initScripts runs up to its first
\* await in a document that keeps the <script> elements of the earlier mounts.
\* The initScripts of the earlier mount goes on by itself; the unmounted App's
\* fetches, report requests and frame results act on nothing any more.
Remount ==
  /\ ~mounted /\ life < MaxLives
  /\ mounted' = TRUE /\ life' = life + 1
  /\ activeModel' = "gemini3" /\ showRemix' = FALSE /\ showModal' = TRUE
  /\ gameHtml' = NoHtml /\ isLoading' = TRUE
  /\ fetches' = <<[kind |-> "load", model |-> "gemini3"]>>
  /\ pauseTimers' = {TRUE}
  /\ reqs' = <<>>
  /\ guest' = 0 /\ guestLoaded' = FALSE /\ lastPause' = "none"
  /\ LET nxt == NextToAppend(scriptTags, 1)
     IN /\ scriptTags' = StartChain(scriptTags)
        /\ appends' = [k \in 1 .. 3 |->
                         IF scriptTags'[k] = "loading" /\ scriptTags[k] # "loading"
                         THEN appends[k] + 1 ELSE appends[k]]
        /\ loadPc' = nxt
        /\ oldPcs' = oldPcs \cup (IF loadPc \in 1 .. 3 THEN {loadPc} ELSE {})
        /\ scriptsLoaded' = (nxt = 4)
        /\ fx' = IF nxt = 4 THEN PendingEffects(FALSE, TRUE) ELSE {}
  /\ handsRef' = "null" /\ handsNew' = 0
  /\ cameraRef' = 0 /\ cameraVideo' = 0 /\ cameraFailed' = FALSE /\ videoRef' = 0
  /\ UNCHANGED <<started, stopped>>
  /\ inflight' = FALSE
  /\ win' = [rose |-> FALSE, pair |-> FALSE, posts |-> {}]
  /\ ev' = Event("Remount", "")
  /\ out' = <<>>

\* --------------------------------------------------- HandController: frames
\* the engine's answer for one frame: no hand, a hand whose landmark 9 is
\* missing, a hand whose landmark 9 has x = v / (2 * Half)
XRange == (0 - 1) .. (2 * Half + 1)
HandFrames ==
  {[hands |-> 0, has9 |-> FALSE, x |-> 0], [hands |-> 1, has9 |-> FALSE, x |-> 0]}
    \cup {[hands |-> 1, has9 |-> TRUE, x |-> v] : v \in XRange}

\* the mapping without the mirroring
normalizedInputUnmirrored(v) == (v - Half) * 2

\* HandController.tsx:154-155  rawX = 1 - x; normalizedInput = (rawX - 0.5) * 2
normalizedInput(v) == ((2 * Half - v) - Half) * 2

\* the callback without its canvas guard
onResultsNoCanvasGuard(results) ==
  IF results.hands > 0
  THEN IF results.has9
       THEN [called |-> TRUE, x |-> normalizedInput(results.x), isActive |-> TRUE]
       ELSE NoSignal
  ELSE [called |-> TRUE, x |-> 0, isActive |-> FALSE]

\* HandController.tsx:132-179 onResults: the onInput call it makes, if any
onResults(results) ==
  IF canvasRef = 0
  THEN NoSignal
  ELSE IF results.hands > 0
       THEN IF results.has9
            THEN [called |-> TRUE, x |-> normalizedInput(results.x), isActive |-> TRUE]
            ELSE NoSignal
       ELSE [called |-> TRUE, x |-> 0, isActive |-> FALSE]

\* part_000:378-382 handleHandInput
handleHandInput(sig) ==
  IF sig.called
  THEN Post("INPUT_UPDATE", [x |-> sig.x, isActive |-> sig.isActive])
  ELSE <<>>

\* HandController.tsx:107-111 onFrame of a started camera: one frame at a time
FrameTick ==
  /\ started > stopped
  /\ ~inflight
  /\ videoRef # 0 /\ handsRef # "null"
  /\ inflight' = TRUE
  /\ UNCHANGED <<appVars, asyncVars, frameVars, mounted, loadVars, handsVars,
                 camVars, videoRef, fx, win>>
  /\ ev' = Event("FrameTick", "")
  /\ out' = <<>>

\* the engine delivers the frame's result to the callback of HandController.tsx:90
ResultDeliver(results) ==
  /\ inflight
  /\ inflight' = FALSE
  /\ ev' = [Event("onResults", results) EXCEPT !.sig = onResults(results)]
  /\ out' = handleHandInput(onResults(results))
  /\ UNCHANGED <<appVars, asyncVars, frameVars, mounted, loadVars, handsVars,
                 camVars, videoRef, fx, win>>

\* ------------------------------------------------------- App: pause protocol
\* part_000:271-277 syncGameState of the render whose flag is `paused`
syncGameState(paused) == Post("PAUSE_GAME", paused)

Posted(w, msgs) ==
  [w EXCEPT !.posts = w.posts \cup {msgs[j].payload : j \in 1 .. Len(msgs)}]

\* part_000:275 what the guest document has of the messages posted to its
\* window: it listens once its load event has fired
Received(msgs, ready) ==
  IF ready /\ msgs # <<>>
  THEN (IF msgs[Len(msgs)].payload THEN "true" ELSE "false")
  ELSE lastPause

\* part_000:281 the timer set by the debounce effect fires
TimerFire(paused) ==
  /\ paused \in pauseTimers
  /\ pauseTimers' = pauseTimers \ {paused}
  /\ out' = syncGameState(paused)
  /\ lastPause' = Received(out', guestLoaded)
  /\ win' = Posted(win, out')
  /\ ev' = Event("TimerFire", "")
  /\ UNCHANGED <<appVars, fetches, reqs, guest, guestLoaded, hcVars>>

\* an iframe without a load handler
onLoadNothing(paused) == <<>>

\* part_000:418 onLoad={syncGameState}
onLoad(paused) == syncGameState(paused)

\* the guest document's load event
IframeLoad ==
  /\ guest # 0 /\ ~guestLoaded
  /\ guestLoaded' = TRUE
  /\ out' = onLoad(PauseFlag)
  /\ lastPause' = Received(out', TRUE)
  /\ win' = IF pauseTimers = {} THEN win ELSE Posted(win, out')
  /\ ev' = Event("IframeLoad", "")
  /\ UNCHANGED <<appVars, asyncVars, guest, hcVars>>

\* ------------------------------------------------------ App: report protocol
\* what a message event may carry: no data at all, data with another type tag,
\* GAME_OVER with a payload that has or lacks each part of Telemetry
Payloads ==
  {[defined |-> FALSE, metrics |-> FALSE, timeline |-> FALSE, artifacts |-> FALSE],
   [defined |-> TRUE, metrics |-> FALSE, timeline |-> TRUE, artifacts |-> TRUE],
   [defined |-> TRUE, metrics |-> TRUE, timeline |-> FALSE, artifacts |-> TRUE],
   [defined |-> TRUE, metrics |-> TRUE, timeline |-> TRUE, artifacts |-> FALSE],
   [defined |-> TRUE, metrics |-> TRUE, timeline |-> TRUE, artifacts |-> TRUE]}
NoPayload == [defined |-> FALSE, metrics |-> FALSE, timeline |-> FALSE, artifacts |-> FALSE]
MessageData ==
  {[shape |-> "nodata", payload |-> NoPayload], [shape |-> "other", payload |-> NoPayload]}
    \cup {[shape |-> "GAME_OVER", payload |-> p] : p \in Payloads}

\* part_000:214-234 generateAnalysisPrompt reads data.metrics.inst and
\* data.timeline[0] unguarded, data.artifacts?.t1 guarded
generateAnalysisPromptThrows(data) ==
  ~data.defined \/ ~data.metrics \/ ~data.timeline

\* the texts generateContent may answer with
JsonPillar == "{archetype:THE INSTITUTIONAL PILLAR,match:Ad Reinhardt,narrative:n1}"
JsonDarling == "{archetype:THE MARKET DARLING,match:Jeff Koons,narrative:n2}"
JsonPartial == "{archetype:THE RECLUSE}"
Texts == {"Sorry, I cannot", "null", JsonPillar, JsonDarling, JsonPartial}
Responses ==
  {[kind |-> "reject", text |-> "undefined"]} \cup {[kind |-> "text", text |-> t] : t \in Texts}

\* part_000:302 JSON.parse(response.text): a SyntaxError for text that is not JSON
JSONParseThrows(text) == text \in {"undefined", "Sorry, I cannot"}
JSONParse(text) ==
  CASE text = JsonPillar ->
         [archetype |-> "THE INSTITUTIONAL PILLAR", match |-> "Ad Reinhardt",
          narrative |-> "n1"]
    [] text = JsonDarling ->
         [archetype |-> "THE MARKET DARLING", match |-> "Jeff Koons", narrative |-> "n2"]
    [] text = JsonPartial ->
         [archetype |-> "THE RECLUSE", match |-> "undefined", narrative |-> "undefined"]
    [] OTHER ->
         [archetype |-> "undefined", match |-> "undefined", narrative |-> "undefined"]

\* the handler answering with the fallback whatever the service said
ReportPayloadFallback(resp) == FallbackReport

\* part_000:292-321 the payload the handler posts once generateContent has settled
ReportPayload(resp) ==
  IF resp.kind = "reject" \/ JSONParseThrows(resp.text)
  THEN FallbackReport
  ELSE JSONParse(resp.text)

\* the send of the try block followed by the send of the catch block
SendReportTwice(payload) ==
  Post("REPORT_GENERATED", payload) \o Post("REPORT_GENERATED", FallbackReport)

\* part_000:305-307 and 311-320  posted only while the iframe is mounted
SendReport(payload) == Post("REPORT_GENERATED", payload)

\* part_000:287-323 handleMessage up to its await.  A GAME_OVER comes from the
\* guest document.
Message(data) ==
  /\ mounted
  /\ data \in MessageData
  /\ data.shape = "GAME_OVER" => guest # 0
  /\ IF data.shape = "nodata"
     THEN /\ ev' = [Event("message", data) EXCEPT !.rejected = TRUE]
          /\ out' = <<>>
          /\ UNCHANGED reqs
     ELSE IF data.shape # "GAME_OVER"
          THEN /\ ev' = Event("message", data)
               /\ out' = <<>>
               /\ UNCHANGED reqs
          ELSE IF generateAnalysisPromptThrows(data.payload)
               THEN /\ ev' = Event("message", data)
                    /\ out' = SendReport(FallbackReport)
                    /\ UNCHANGED reqs
               ELSE /\ Len(reqs) < MaxReqs
                    /\ ev' = Event("message", data)
                    /\ out' = <<>>
                    /\ reqs' = Append(reqs, TRUE)
  /\ UNCHANGED <<appVars, fetches, pauseTimers, frameVars, hcVars, win>>

\* part_000:296-321 handleMessage after its await: generateContent has settled
ReportSettle(i, resp) ==
  /\ i \in 1 .. Len(reqs)
  /\ resp \in Responses
  /\ reqs' = RemoveAt(reqs, i)
  /\ ev' = Event("ReportSettle", resp)
  /\ out' = SendReport(ReportPayload(resp))
  /\ UNCHANGED <<appVars, fetches, pauseTimers, frameVars, hcVars, win>>

\* ------------------------------------------------------------------- Next
\* what the user and the network do to the host shell
Shell ==
  \/ \E m \in Models : ClickModel(m)
  \/ ClickRemix
  \/ CloseRemix
  \/ ClickInit
  \/ HandleRemix
  \/ \E i \in 1 .. MaxInFlight, ok \in BOOLEAN : FetchSettle(i, ok)
  \/ Unmount

Next ==
  \/ Shell
  \/ RunEffects
  \/ \E k \in 1 .. 3 : ScriptOnload(k)
  \/ \E k \in 1 .. 3 : ScriptOnerror(k)
  \/ FrameTick
  \/ \E r \in HandFrames : ResultDeliver(r)
  \/ \E p \in BOOLEAN : TimerFire(p)
  \/ IframeLoad
  \/ \E d \in MessageData : Message(d)
  \/ \E i \in 1 .. MaxReqs, r \in Responses : ReportSettle(i, r)
  \/ Remount

Spec == Init /\ [][Next]_vars

\* The three protocols share only the shell's state.  The tracking actions read
\* and write none of pauseTimers, guestLoaded, reqs, win; the pause and report
\* actions read and write none of the HandController's state; so each protocol
\* is checked with the shell alone, which reaches the same values of the
\* variables its claims are about as Spec does.

\* the shell and the tracking session
NextTrack ==
  \/ Shell
  \/ RunEffects
  \/ \E k \in 1 .. 3 : ScriptOnload(k)
  \/ \E k \in 1 .. 3 : ScriptOnerror(k)
  \/ FrameTick
  \/ \E r \in HandFrames : ResultDeliver(r)

SpecTrack == Init /\ [][NextTrack]_vars

\* the script loads over several mounts of the component.  The clicks and the
\* fetches of the shell read and write none of the loader's state.
NextLife ==
  \/ Unmount
  \/ RunEffects
  \/ \E k \in 1 .. 3 : ScriptOnload(k)
  \/ \E k \in 1 .. 3 : ScriptOnerror(k)
  \/ Remount

SpecLife == Init /\ [][NextLife]_vars

\* the shell and the pause protocol
NextPause ==
  \/ Shell
  \/ \E p \in BOOLEAN : TimerFire(p)
  \/ IframeLoad

SpecPause == Init /\ [][NextPause]_vars

\* the shell and the report protocol
NextReport ==
  \/ Shell
  \/ \E d \in MessageData : Message(d)
  \/ \E i \in 1 .. MaxReqs, r \in Responses : ReportSettle(i, r)

SpecReport == Init /\ [][NextReport]_vars

\* the shell, the script loads and the pause protocol: what runs of the
\* program while the tracking has not started or cannot start
NextDegraded ==
  \/ Shell
  \/ RunEffects
  \/ \E k \in 1 .. 3 : ScriptOnload(k)
  \/ \E k \in 1 .. 3 : ScriptOnerror(k)
  \/ \E p \in BOOLEAN : TimerFire(p)
  \/ IframeLoad

SpecDegraded == Init /\ [][NextDegraded]_vars

\* ================================================================ claims
\* the cameras started and not stopped
Live == started - stopped

InputUpdates == {j \in 1 .. Len(out) : out[j].type = "INPUT_UPDATE"}

\* C1: deactivation stops capture and releases the device: in every settled
\* state (no effect pending) a live or held camera implies isActive.
C1_StoppedWhenInactive ==
  (mounted /\ fx = {} /\ (Live > 0 \/ cameraRef # 0)) => IsActive

\* C2: no INPUT_UPDATE is posted while isActive is false, also when a result
\* that was in flight at the deactivation is delivered afterwards.
C2_NoInputWhileInactive ==
  InputUpdates # {} => IsActive

\* a result delivered while inactive with the iframe still mounted: nothing posted
C2_Witness ==
  /\ ev.op = "onResults" /\ ev.arg.hands = 1 /\ ev.arg.has9
  /\ ~IsActive /\ guest # 0 /\ out = <<>>

\* C3: at most one camera is started and not stopped, in every reachable state.
C3_AtMostOneLive == Live <= 1

\* the camera started at the first activation is live, the session toggled off
C3_Witness == Live = 1 /\ mounted /\ ~IsActive /\ fx = {}

\* C4: a step that leaves isActive true while a camera is held starts no camera
\* and keeps the held one; a step that leaves isActive false while no camera is
\* held stops nothing and changes nothing of the camera.
C4_Idempotent ==
  [][/\ (cameraRef # 0 /\ mounted' /\ IsActive')
          => (cameraRef' = cameraRef /\ started' = started /\ stopped' = stopped
              /\ cameraVideo' = cameraVideo)
     /\ (cameraRef = 0 /\ ~IsActive')
          => (cameraRef' = 0 /\ started' = started /\ stopped' = stopped)]_vars

\* the activation logic has just run again with the camera held: the camera is
\* still the one constructed with the earlier <video>
C4_Witness ==
  /\ ev.op \in {"CloseRemix", "RunEffects"} /\ IsActive /\ fx = {}
  /\ cameraRef = 1 /\ started = 1 /\ videoRef # 0 /\ cameraVideo # videoRef

\* C10: a frame with landmark 9 at x = v gives x = (1 - v - 0.5) * 2 and
\* active = true, within [-1, 1] for v in [0, 1]; a frame with no hand gives
\* {x: 0, active: false}; a signal with active = false has x = 0.  In units of
\* 1 / (2 * Half): x = 2 * Half - 2 * v, within -2 * Half .. 2 * Half.
C10_Normalize ==
  ev.op = "onResults" =>
    /\ (canvasRef # 0 /\ ev.arg.hands > 0 /\ ev.arg.has9) =>
         /\ ev.sig = [called |-> TRUE, x |-> 2 * Half - 2 * ev.arg.x, isActive |-> TRUE]
         /\ ev.arg.x \in 0 .. (2 * Half) =>
              (ev.sig.x >= 0 - 2 * Half /\ ev.sig.x <= 2 * Half)
    /\ (canvasRef # 0 /\ ev.arg.hands = 0) =>
         ev.sig = [called |-> TRUE, x |-> 0, isActive |-> FALSE]
    /\ (ev.sig.called /\ ~ev.sig.isActive) => ev.sig.x = 0
    /\ \A j \in InputUpdates :
         /\ ev.sig.called
         /\ out[j].payload = [x |-> ev.sig.x, isActive |-> ev.sig.isActive]

\* landmark 9 at the left edge (v = 0) steers fully right (x = 1), posted
C10_Witness ==
  /\ ev.op = "onResults" /\ ev.arg.has9 /\ ev.arg.x = 0
  /\ ev.sig.x = 2 * Half /\ InputUpdates # {}

Reports == {j \in 1 .. Len(out) : out[j].type = "REPORT_GENERATED"}

\* the step ended the handling of one GAME_OVER: generateContent settled, or the
\* prompt could not be built and the catch block ran at once
CycleEnded ==
  \/ ev.op = "ReportSettle"
  \/ /\ ev.op = "message" /\ ev.arg.shape = "GAME_OVER"
     /\ generateAnalysisPromptThrows(ev.arg.payload)

\* C5 as stated: every GAME_OVER whose handling ended had exactly one
\* REPORT_GENERATED posted, whatever the shell did meanwhile.
C5_ExactlyOnce == CycleEnded => Cardinality(Reports) = 1

\* C5 as amended: exactly one REPORT_GENERATED when an iframe is mounted at the
\* time the handling ends, none when there is no iframe; never more than one.
C5_OnceIfMounted ==
  CycleEnded =>
    /\ Len(out) = Cardinality(Reports)
    /\ Cardinality(Reports) = IF mounted /\ ~isLoading /\ gameHtml # NoHtml THEN 1 ELSE 0

\* a request settled while the shell was loading a model: no report was posted
C5_Witness == ev.op = "ReportSettle" /\ isLoading /\ mounted /\ out = <<>>

\* the answers that are a report-generation failure: the call rejected, the text
\* is not JSON, or the JSON is not a Report
ValidReportTexts == {JsonPillar, JsonDarling}
FailedResponse(resp) == resp.kind = "reject" \/ resp.text \notin ValidReportTexts

\* C6: on a report-generation failure the handler does not reject and
\* REPORT_GENERATED still fires with exactly the fallback report.
C6_FallbackOnFailure ==
  (CycleEnded /\ (ev.op = "ReportSettle" => FailedResponse(ev.arg))) =>
    /\ ~ev.rejected
    /\ Cardinality(Reports) = 1
    /\ \A j \in Reports : out[j].payload = FallbackReport

\* C7: a valid Report in the answer is the payload of the REPORT_GENERATED posted.
C7_ReportDelivered ==
  (ev.op = "ReportSettle" /\ ev.arg.kind = "text" /\ ev.arg.text \in ValidReportTexts) =>
    \A j \in Reports :
      out[j].payload =
        IF ev.arg.text = JsonPillar
        THEN [archetype |-> "THE INSTITUTIONAL PILLAR", match |-> "Ad Reinhardt",
              narrative |-> "n1"]
        ELSE [archetype |-> "THE MARKET DARLING", match |-> "Jeff Koons",
              narrative |-> "n2"]

\* the scenario of the documentation: the service answers with the pillar report
C7_Witness ==
  /\ ev.op = "ReportSettle" /\ ev.arg.text = JsonPillar
  /\ Len(out) = 1 /\ out[1].type = "REPORT_GENERATED"
  /\ out[1].payload.match = "Ad Reinhardt"

\* Telemetry has metrics, timeline and artifacts
ValidTelemetry(p) == p.defined /\ p.metrics /\ p.timeline /\ p.artifacts
Unrecognized(d) == d.shape # "GAME_OVER" \/ ~ValidTelemetry(d.payload)

\* C8: a message of unrecognized shape starts no request, posts nothing, throws
\* nothing and changes no host state.
C8_UnrecognizedIgnored ==
  [][(ev'.op = "message" /\ Unrecognized(ev'.arg))
       => (out' = <<>> /\ ~ev'.rejected /\ reqs' = reqs
           /\ UNCHANGED <<appVars, fetches, pauseTimers>>)]_vars

PauseMsgs == {j \in 1 .. Len(out) : out[j].type = "PAUSE_GAME"}

\* C9 as stated: when the flag falls while the timer of its rise is pending, no
\* PAUSE_GAME true was posted in between.
C9_OnlyFinalValue ==
  [][(win.rose /\ TRUE \in pauseTimers /\ PauseFlag /\ ~PauseFlag')
       => TRUE \notin win.posts]_vars

\* C9 as amended: every PAUSE_GAME carries the pause flag of the moment it is
\* posted, so the timer of a rise that was followed by a fall inside the window
\* never posts, the timer of the fall posts false, and a PAUSE_GAME true inside
\* the window comes from the load handler alone, while the flag is true.
C9_NeverStale ==
  /\ \A j \in PauseMsgs : out[j].payload = PauseFlag
  /\ Cardinality(pauseTimers) <= 1
  /\ (ev.op = "TimerFire" /\ win.pair) => \A j \in PauseMsgs : out[j].payload = FALSE

\* after a rise and a fall inside the window, the timer posted the final value
C9_Witness ==
  /\ win.pair /\ ev.op = "TimerFire"
  /\ Len(out) = 1 /\ out[1].type = "PAUSE_GAME" /\ out[1].payload = FALSE

\* C11: a non-empty detection whose landmark set lacks index 9 is treated as a
\* frame with no hand: the callback emits {x: 0, active: false}, and the guest
\* in the iframe is sent that signal.
C11_MalformedIsNoHand ==
  (ev.op = "onResults" /\ canvasRef # 0 /\ ev.arg.hands > 0 /\ ~ev.arg.has9) =>
    /\ ev.sig = [called |-> TRUE, x |-> 0, isActive |-> FALSE]
    /\ guest # 0 =>
         out = <<Msg("INPUT_UPDATE", [x |-> 0, isActive |-> FALSE])>>

\* C12: however often initScripts runs, one run after another or several at a
\* time, at most one <script> is appended for each URL, and a URL that has its
\* <script> in the document is skipped.
C12_AtMostOncePerUrl ==
  \A k \in 1 .. 3 :
    /\ appends[k] <= 1
    /\ scriptTags[k] = "absent" <=> appends[k] = 0

\* the second mount's initScripts skipped the URL the first mount's still awaits
\* and appended the next one: two chains run at a time
C12_Witness ==
  /\ ev.op = "Remount" /\ life = 2
  /\ oldPcs = {1} /\ scriptTags[1] = "loading"
  /\ loadPc = 2 /\ appends = <<1, 1, 0>>

\* C13: scriptsLoaded is true only when each of the three modules has loaded,
\* also when a URL was registered by an earlier or concurrent initScripts.
C13_LoadedMeansAllLoaded ==
  scriptsLoaded => \A k \in 1 .. 3 : scriptTags[k] = "loaded"

\* C14: after the unmount no camera is live or held, and none is created or
\* started afterwards, whatever the state at the unmount and whatever
\* completes after it.
C14_ReleasedOnUnmount ==
  [][~mounted' => /\ Live' = 0 /\ cameraRef' = 0
                  /\ ~mounted => (started' = started /\ handsRef' = handsRef)]_vars

\* the camera was running when the component was unmounted; the cleanup stopped it
C14_Witness == ~mounted /\ ev.op = "Unmount" /\ started = 1 /\ stopped = 1

\* the creation of the engine, or of the camera, has thrown in this mount
CreationFailed == cameraFailed \/ (handsNew > 0 /\ handsRef = "null")

\* C15: once the creation of the engine or of the camera has failed, no later
\* step of the same mount creates an engine or starts a camera.
C15_FailureTerminal ==
  [][CreationFailed =>
       (started' = started /\ handsNew' = handsNew /\ handsRef' = handsRef)]_vars

Failed == {k \in 1 .. 3 : scriptTags[k] = "error"}

\* the guest document is loaded and the debounce timer has fired since the last
\* change of the pause flag
PauseSettled == mounted /\ guest # 0 /\ guestLoaded /\ pauseTimers = {}

\* C16: when a module load has failed, the modules after it are not requested,
\* scriptsLoaded stays false, no engine and no camera is created, nothing is
\* loaded again, and the host's protocols go on: the failure changes nothing
\* they read, and the guest is still told the pause flag.
C16_LoadFailureFinal ==
  [][/\ \A k \in 1 .. 3 :
          scriptTags'[k] = "error" =>
            /\ \A j \in (k + 1) .. 3 : scriptTags'[j] = "absent"
            /\ ~scriptsLoaded' /\ loadPc' = 0
            /\ handsRef' = "null" /\ handsNew' = 0
            /\ cameraRef' = 0 /\ started' = 0
            /\ PauseSettled' => lastPause' = (IF PauseFlag' THEN "true" ELSE "false")
     /\ Failed # {} => UNCHANGED <<scriptTags, appends, loadPc, oldPcs, scriptsLoaded>>
     /\ Failed' # Failed => UNCHANGED <<appVars, asyncVars, frameVars, mounted>>]_vars

\* drawing_utils failed to load; later the guest loaded and was told the flag
C16_Witness ==
  /\ scriptTags = <<"loaded", "error", "absent">>
  /\ ev.op = "IframeLoad" /\ Len(out) = 1 /\ out[1].type = "PAUSE_GAME"

\* C17: the engine constructor runs at most once in a mount, the engine held is
\* the one it made, and every frame is sent to it, over any number of
\* activations and deactivations.
C17_EngineOnce ==
  /\ handsNew <= 1
  /\ handsRef = "hands" => handsNew = 1
  /\ (inflight \/ ev.op = "FrameTick") => handsRef = "hands"

\* a frame sent after a deactivation and a new activation (the HUD's <video> is
\* not the one the camera was made with)
C17_Witness ==
  /\ ev.op = "FrameTick" /\ inflight /\ handsNew = 1
  /\ cameraVideo # videoRef /\ IsActive

\* C18: the <script> of the k-th module is appended only when the modules
\* before it have loaded, and at most one module is loading at any time.
C18_StrictSequence ==
  /\ \A k \in 1 .. 3 :
       scriptTags[k] # "absent" => \A j \in 1 .. (k - 1) : scriptTags[j] = "loaded"
  /\ Cardinality({k \in 1 .. 3 : scriptTags[k] = "loading"}) <= 1

\* the third module is being loaded after the first two
C18_Witness == scriptTags = <<"loaded", "loaded", "loading">> /\ loadPc = 3

\* C19: once the guest document is loaded and the timer of the last change of
\* the pause flag has fired, the last PAUSE_GAME the document was sent carries
\* the current flag.
C19_PauseNotLost ==
  PauseSettled => lastPause = (IF PauseFlag THEN "true" ELSE "false")

\* the flag fell and its timer fired while the shell was loading; the guest
\* that loaded afterwards was told the current flag by the load handler
C19_Witness ==
  /\ ev.op = "IframeLoad" /\ pauseTimers = {} /\ ~PauseFlag
  /\ lastPause = "false"

\* C20: at most one text-generation request is awaited at any time.
C20_AtMostOneInFlight == Len(reqs) <= 1

\* C21: a REPORT_GENERATED posted when a request settles goes to the guest
\* document that sent the GAME_OVER: the request that settled was asked by the
\* document that is in the iframe, never by one that has been replaced.
C21_ReportToAsker ==
  [][(ev'.op = "ReportSettle" /\ out' # <<>>) =>
       \E i \in 1 .. Len(reqs) : reqs[i] /\ reqs' = RemoveAt(reqs, i)]_vars

\* C22: while a camera is held and the HUD is mounted, the <video> the camera
\* was constructed with is the <video> that is mounted.
C22_CameraOnMountedVideo ==
  (mounted /\ fx = {} /\ IsActive /\ cameraRef # 0) => cameraVideo = videoRef

\* C23: isLoading is false only when no load or remix request is in flight, and
\* the request that settles last does not replace the document of the selected
\* model, shown by a request that settled before it, by a document of another
\* model.
C23_LoadsConsistent ==
  [][mounted' =>
       /\ ~isLoading' => fetches' = <<>>
       /\ (/\ fetches' = <<>> /\ activeModel' = activeModel
           /\ gameHtml # NoHtml /\ gameHtml.model = activeModel
           /\ gameHtml' # NoHtml)
            => gameHtml'.model = activeModel]_vars

====
